---- MODULE Spec2Model ----
(***************************************************************************)
(* Model of the Socket.IO face-identification server (src/server.py).      *)
(*                                                                         *)
(* The server registers three handlers on an asyncio event loop: connect,  *)
(* disconnect and 'identify-face'.  The identify-face handler is a         *)
(* coroutine with three await expressions: `await asyncio.sleep(0.5)`      *)
(* (line 83) and the two `await sio.emit(...)` (lines 87 and 92).  It runs *)
(* synchronously from the receipt of the event to its first await and      *)
(* from each await to the next.  Every inbound event gets its own handler  *)
(* invocation; the handler keeps no per-session state and takes no lock.   *)
(*                                                                         *)
(* Payload text is modelled as a sequence of characters over a small       *)
(* alphabet that contains three base64 digits ("/", "9", "j": the digits   *)
(* of "/9j/", the base64 form of the JPEG start bytes FF D8 FF), the pad   *)
(* character and the header delimiter.                                     *)
(***************************************************************************)
EXTENDS Integers, Sequences, FiniteSets, TLC

VARIABLES
    session,            \* sid -> "new" | "open" | "closed" (transport view of each connection)
    events,             \* one record per handle_identify_face invocation, in arrival order;
                        \* its field calls lists the sio.emit calls the invocation has made
    raw,                \* the payload under test of the decoder specification
    accepted            \* sid -> number of connect handler invocations that accepted it

vars == <<session, events, raw, accepted>>

----------------------------------------------------------------------------
(* Bounds *)

NumSessions == 2
MaxEvents == 2
MaxLen == 4
MaxConnects == 2

Sids == 1..NumSessions

----------------------------------------------------------------------------
(* Payload values *)

Chars == {"/", "9", "j", "=", ","}

Strings == UNION {[1..n -> Chars] : n \in 0..MaxLen}

Str(t) == [kind |-> "str", text |-> t]

\* A JSON payload that is not text: a number or null has no len();
\* a list, an object or a binary attachment has one.
Unsized == [kind |-> "int", text |-> <<>>]

NoRaw == [kind |-> "none", text |-> <<>>]

RawInputs == {Str(t) : t \in Strings}

Payloads ==
    { Str(<<"j", ",", "/", "9", "j", "/">>),   \* header, then a JPEG
      Str(<<"9", "9", "9", "9">>),             \* well-formed base64, not an image
      Str(<<"/", "9">>),                       \* truncated base64
      Unsized }

----------------------------------------------------------------------------
(* Line 70-72: header, base64_data = base64_image.split(',', 1) *)

RECURSIVE find(_, _, _)
find(s, c, k) ==
    IF k > Len(s) THEN 0
    ELSE IF s[k] = c THEN k
    ELSE find(s, c, k + 1)

rfind_split(base64_image) ==
    LET ks == {k \in 1..Len(base64_image) : base64_image[k] = ","}
        k  == IF ks = {} THEN 0 ELSE CHOOSE m \in ks : \A n \in ks : n <= m
    IN  IF k = 0 THEN base64_image
        ELSE SubSeq(base64_image, k + 1, Len(base64_image))

split(base64_image) ==
    LET k == find(base64_image, ",", 1)
    IN  IF k = 0 THEN base64_image
        ELSE SubSeq(base64_image, k + 1, Len(base64_image))

----------------------------------------------------------------------------
(* Line 74: base64.b64decode(base64_data), i.e. binascii.a2b_base64 in its  *)
(* default non-strict mode: characters outside the alphabet are skipped,   *)
(* a completed pad sequence ends the input, and a quad left incomplete at  *)
(* the end of the input raises binascii.Error.                             *)

B64Value(c) ==
    CASE c = "/" -> 63
      [] c = "9" -> 61
      [] c = "j" -> 35
      [] OTHER   -> 64

RECURSIVE a2b_base64(_, _, _, _, _, _)
a2b_base64(s, i, quad_pos, pads, leftchar, out) ==
    IF i > Len(s)
    THEN [ok |-> (quad_pos = 0), bytes |-> out]
    ELSE
      LET c == s[i]
          v == B64Value(c)
      IN  IF c = "="
          THEN IF quad_pos >= 2 /\ quad_pos + pads + 1 >= 4
               THEN [ok |-> TRUE, bytes |-> out]
               ELSE a2b_base64(s, i + 1, quad_pos,
                               IF quad_pos >= 2 THEN pads + 1 ELSE pads,
                               leftchar, out)
          ELSE IF v >= 64
          THEN a2b_base64(s, i + 1, quad_pos, pads, leftchar, out)
          ELSE CASE quad_pos = 0 ->
                      a2b_base64(s, i + 1, 1, 0, v, out)
                 [] quad_pos = 1 ->
                      a2b_base64(s, i + 1, 2, 0, v % 16,
                                 Append(out, (leftchar * 4 + v \div 16) % 256))
                 [] quad_pos = 2 ->
                      a2b_base64(s, i + 1, 3, 0, v % 4,
                                 Append(out, (leftchar * 16 + v \div 4) % 256))
                 [] OTHER ->
                      a2b_base64(s, i + 1, 0, 0, 0,
                                 Append(out, (leftchar * 64 + v) % 256))

b64decode(base64_data) == a2b_base64(base64_data, 1, 0, 0, 0, <<>>)

----------------------------------------------------------------------------
(* Line 75-76: cv2.imdecode(np.frombuffer(img_data, np.uint8), IMREAD_COLOR). *)
(* The codec is abstracted to its signature test: a buffer is an image iff  *)
(* it starts with the JPEG start-of-image marker FF D8.  An empty buffer    *)
(* makes imdecode raise cv2.error on builds that assert !buf.empty() and    *)
(* return None on builds that do not: the caller chooses which.             *)

imdecode(img_data, assertsNonEmpty) ==
    IF img_data = <<>>
    THEN IF assertsNonEmpty THEN "error" ELSE "None"
    ELSE IF Len(img_data) >= 2 /\ img_data[1] = 255 /\ img_data[2] = 216
    THEN "bitmap"
    ELSE "None"

\* Line 84
user == [id |-> "p123", name |-> "Kim Cheol-su"]

----------------------------------------------------------------------------
(* The handler, as the code runs it between two suspension points *)

\* An awaited sio.emit call either returns or raises.
Outcomes == {"ok", "raise"}

\* Lines 87 and 92: the keyword argument to=sid
emit_other(sid) == (sid % NumSessions) + 1

emit_to(sid) == sid

\* One sio.emit call; ok tells whether it has returned ("pending": not yet).
emit(event, to, data, o) ==
    [event |-> event, to |-> to, data |-> data, ok |-> (o = "ok")]

\* Lines 90-92: except Exception: print; await sio.emit('auth-fail', to=sid).
\* The coroutine is then suspended in that emit.
except_block_silent(sid) ==
    [calls |-> <<>>, pc |-> "done"]

except_block(sid) ==
    [calls |-> <<emit("auth-fail", emit_to(sid), <<>>, "pending")>>,
     pc    |-> "emit_fail"]

\* Lines 64-83: from the receipt of the event to the first await.
\*   pc = "crashed": len() raised at line 64, outside the try block
\*   pc = "except" : an exception was raised inside the try block
\*   pc = "done"   : img is None, return at line 80
\*   pc = "sleep"  : suspended in asyncio.sleep at line 83
\* The two further positions of a handler are "emit_success" (suspended in the
\* emit of line 87) and "emit_fail" (suspended in the emit of line 92).
begin_yield_first(base64_image, assertsNonEmpty) ==
    IF base64_image.kind = "int"
    THEN [pc |-> "crashed", exc |-> "len", base64_data |-> <<>>, img |-> "unset"]
    ELSE [pc |-> "sleep", exc |-> "none", base64_data |-> <<>>, img |-> "unset"]

begin_unchecked(base64_image, assertsNonEmpty) ==
    IF base64_image.kind = "int"
    THEN [pc |-> "crashed", exc |-> "len", base64_data |-> <<>>, img |-> "unset"]
    ELSE IF base64_image.kind # "str"
    THEN [pc |-> "except", exc |-> "type", base64_data |-> <<>>, img |-> "unset"]
    ELSE
      LET base64_data == split(base64_image.text)
          img_data    == b64decode(base64_data)
          img         == imdecode(img_data.bytes, assertsNonEmpty)
      IN  IF ~img_data.ok
          THEN [pc |-> "except", exc |-> "b64decode", base64_data |-> base64_data, img |-> "unset"]
          ELSE IF img = "error"
          THEN [pc |-> "except", exc |-> "imdecode", base64_data |-> base64_data, img |-> "unset"]
          ELSE [pc |-> "sleep", exc |-> "none", base64_data |-> base64_data, img |-> img]

begin(base64_image, assertsNonEmpty) ==
    IF base64_image.kind = "int"
    THEN [pc |-> "crashed", exc |-> "len", base64_data |-> <<>>, img |-> "unset"]
    ELSE IF base64_image.kind # "str"
    THEN [pc |-> "except", exc |-> "type", base64_data |-> <<>>, img |-> "unset"]
    ELSE
      LET base64_data == split(base64_image.text)
          img_data    == b64decode(base64_data)
          img         == imdecode(img_data.bytes, assertsNonEmpty)
      IN  IF ~img_data.ok
          THEN [pc |-> "except", exc |-> "b64decode", base64_data |-> base64_data, img |-> "unset"]
          ELSE IF img = "error"
          THEN [pc |-> "except", exc |-> "imdecode", base64_data |-> base64_data, img |-> "unset"]
          ELSE IF img = "None"
          THEN [pc |-> "done", exc |-> "none", base64_data |-> base64_data, img |-> img]
          ELSE [pc |-> "sleep", exc |-> "none", base64_data |-> base64_data, img |-> img]

\* Lines 84-87: from the wake-up to the await of the auth-success emit.
after_sleep_nomatch(sid) ==
    LET x == except_block(sid)
    IN  [calls |-> x.calls, pc |-> x.pc, exc |-> "nomatch"]

after_sleep(sid) ==
    [calls |-> <<emit("auth-success", emit_to(sid), <<user>>, "pending")>>,
     pc    |-> "emit_success",
     exc   |-> "none"]

\* Lines 87-92: what follows an awaited emit, by the position pc of the
\* handler and the outcome o of the emit.
\*   line 87 returns: print (line 88), end of the coroutine
\*   line 87 raises : caught at line 90, the except block runs
\*   line 92 returns: end of the coroutine
\*   line 92 raises : raised inside the except block, the exception leaves the coroutine
after_emit_twice(pc, sid, o) ==
    IF pc = "emit_success"
    THEN LET x == except_block(sid)
         IN  [calls |-> x.calls, pc |-> x.pc, exc |-> "emit"]
    ELSE [calls |-> <<>>, pc |-> IF o = "ok" THEN "done" ELSE "crashed", exc |-> "emit"]

after_emit(pc, sid, o) ==
    IF o = "ok"
    THEN [calls |-> <<>>, pc |-> "done", exc |-> "none"]
    ELSE IF pc = "emit_success"
    THEN LET x == except_block(sid)
         IN  [calls |-> x.calls, pc |-> x.pc, exc |-> "emit"]
    ELSE [calls |-> <<>>, pc |-> "crashed", exc |-> "emit"]

\* Lines 50-51: the connect handler logs and returns None, which accepts the
\* connection, whether or not the sid is already registered.
accepts(sid, registered) == TRUE

----------------------------------------------------------------------------
(* Actions *)

\* Lines 49-51.  The transport assigns a fresh sid to every connection.
connect(sid) ==
    /\ session[sid] = "new"
    /\ accepts(sid, FALSE)
    /\ session' = [session EXCEPT ![sid] = "open"]
    /\ accepted' = [accepted EXCEPT ![sid] = @ + 1]
    /\ UNCHANGED <<events, raw>>

\* Lines 49-51, for a connect that carries the sid of an open session.
connect_again(sid) ==
    /\ session[sid] = "open"
    /\ accepted[sid] < MaxConnects
    /\ accepted' = IF accepts(sid, TRUE)
                   THEN [accepted EXCEPT ![sid] = @ + 1]
                   ELSE accepted
    /\ UNCHANGED <<session, events, raw>>

\* Lines 53-55.  The handler only logs: suspended invocations are left alone.
disconnect(sid) ==
    /\ session[sid] = "open"
    /\ session' = [session EXCEPT ![sid] = "closed"]
    /\ UNCHANGED <<events, raw, accepted>>

\* Lines 57-83 (and 90-92 when the try block raises before the first await).
receive_blocking(sid, base64_image, assertsNonEmpty) ==
    /\ session[sid] = "open"
    /\ \A ev \in DOMAIN events : events[ev].pc # "sleep"
    /\ LET b == begin(base64_image, assertsNonEmpty)
           x == except_block(sid)
       IN  events' = Append(events,
               [sid          |-> sid,
                base64_image |-> base64_image,
                base64_data  |-> b.base64_data,
                img          |-> b.img,
                exc          |-> b.exc,
                pc           |-> IF b.pc = "except" THEN x.pc ELSE b.pc,
                calls        |-> IF b.pc = "except" THEN x.calls ELSE <<>>])
    /\ UNCHANGED <<session, raw, accepted>>

receive_busy(sid, base64_image, assertsNonEmpty) ==
    /\ session[sid] = "open"
    /\ LET busy == \E ev \in DOMAIN events :
                       events[ev].sid = sid /\ events[ev].pc = "sleep"
           b == begin(base64_image, assertsNonEmpty)
           x == except_block(sid)
       IN  events' = Append(events,
               [sid          |-> sid,
                base64_image |-> base64_image,
                base64_data  |-> b.base64_data,
                img          |-> b.img,
                exc          |-> IF busy THEN "busy" ELSE b.exc,
                pc           |-> IF busy \/ b.pc = "except" THEN x.pc ELSE b.pc,
                calls        |-> IF busy \/ b.pc = "except" THEN x.calls ELSE <<>>])
    /\ UNCHANGED <<session, raw, accepted>>

receive(sid, base64_image, assertsNonEmpty) ==
    /\ session[sid] = "open"
    /\ LET b == begin(base64_image, assertsNonEmpty)
           x == except_block(sid)
       IN  events' = Append(events,
               [sid          |-> sid,
                base64_image |-> base64_image,
                base64_data  |-> b.base64_data,
                img          |-> b.img,
                exc          |-> b.exc,
                pc           |-> IF b.pc = "except" THEN x.pc ELSE b.pc,
                calls        |-> IF b.pc = "except" THEN x.calls ELSE <<>>])
    /\ UNCHANGED <<session, raw, accepted>>

handle_identify_face(sid, base64_image, assertsNonEmpty) ==
    /\ Len(events) < MaxEvents
    /\ receive(sid, base64_image, assertsNonEmpty)

\* The same handler, fed the payload under test.
handle_raw(sid, assertsNonEmpty) ==
    /\ events = <<>>
    /\ receive(sid, raw, assertsNonEmpty)

\* Lines 83-87: asyncio.sleep returns and the coroutine runs to the next await.
resume(ev) ==
    /\ ev \in DOMAIN events
    /\ events[ev].pc = "sleep"
    /\ LET r == after_sleep(events[ev].sid)
       IN  events' = [events EXCEPT ![ev].pc = r.pc,
                                    ![ev].exc = r.exc,
                                    ![ev].calls = @ \o r.calls]
    /\ UNCHANGED <<session, raw, accepted>>

\* Lines 87-92: the awaited emit returns or raises and the coroutine runs to
\* the next await or to its end.
emit_returns_closing(ev, o) ==
    /\ ev \in DOMAIN events
    /\ events[ev].pc \in {"emit_success", "emit_fail"}
    /\ LET e == events[ev]
           r == after_emit(e.pc, e.sid, o)
           n == Len(e.calls)
       IN  /\ events' = [events EXCEPT
                   ![ev].pc = r.pc,
                   ![ev].exc = IF r.exc = "none" THEN @ ELSE r.exc,
                   ![ev].calls = [@ EXCEPT ![n].ok = (o = "ok")] \o r.calls]
           /\ session' = IF e.pc = "emit_fail" /\ session[e.sid] = "open"
                         THEN [session EXCEPT ![e.sid] = "closed"]
                         ELSE session
    /\ UNCHANGED <<raw, accepted>>

emit_returns(ev, o) ==
    /\ ev \in DOMAIN events
    /\ events[ev].pc \in {"emit_success", "emit_fail"}
    /\ LET e == events[ev]
           r == after_emit(e.pc, e.sid, o)
           n == Len(e.calls)
       IN  events' = [events EXCEPT
               ![ev].pc = r.pc,
               ![ev].exc = IF r.exc = "none" THEN @ ELSE r.exc,
               ![ev].calls = [@ EXCEPT ![n].ok = (o = "ok")] \o r.calls]
    /\ UNCHANGED <<session, raw, accepted>>

----------------------------------------------------------------------------
(* Specifications *)

Init ==
    /\ session = [s \in Sids |-> "new"]
    /\ events = <<>>
    /\ raw = NoRaw
    /\ accepted = [s \in Sids |-> 0]

Next ==
    \/ \E s \in Sids : connect(s)
    \/ \E s \in Sids : disconnect(s)
    \/ \E s \in Sids, p \in Payloads, a \in BOOLEAN : handle_identify_face(s, p, a)
    \/ \E ev \in 1..MaxEvents : resume(ev)
    \/ \E ev \in 1..MaxEvents, o \in Outcomes : emit_returns(ev, o)

Spec == Init /\ [][Next]_vars

\* Every text payload up to MaxLen characters, one event.
InitDecode ==
    /\ session = [s \in Sids |-> "new"]
    /\ events = <<>>
    /\ raw \in RawInputs
    /\ accepted = [s \in Sids |-> 0]

NextDecode ==
    \/ \E s \in Sids : connect(s)
    \/ \E s \in Sids : disconnect(s)
    \/ \E s \in Sids, a \in BOOLEAN : handle_raw(s, a)
    \/ resume(1)
    \/ \E o \in Outcomes : emit_returns(1, o)

SpecDecode == InitDecode /\ [][NextDecode]_vars

\* The server with a transport that may deliver a connect for a sid that is
\* already open.
NextRegistry ==
    \/ Next
    \/ \E s \in Sids : connect_again(s)

SpecRegistry == Init /\ [][NextRegistry]_vars

----------------------------------------------------------------------------
(* Vocabulary of the properties *)

\* The emit calls made by invocation ev (as positions in its call list), and
\* those that returned: an event is emitted when its sio.emit call returns.
CallsOf(ev) == DOMAIN events[ev].calls

Call(ev, k) == events[ev].calls[k]

Emitted(ev) == {k \in CallsOf(ev) : Call(ev, k).ok}

EmittedAs(ev, event) == {k \in Emitted(ev) : Call(ev, k).event = event}

Finished(ev) == events[ev].pc \in {"done", "crashed"}

\* The invocations of a session that are suspended in the recognition step.
Outstanding(sid) == {ev \in DOMAIN events : events[ev].sid = sid /\ events[ev].pc = "sleep"}

IsText(ev) == events[ev].base64_image.kind = "str"

Decoded(ev) == b64decode(split(events[ev].base64_image.text))

\* What a payload is: "other" (not text), "bad" (base64 decoding fails),
\* "empty" (no bytes), "None" (bytes that are no image) or "bitmap".
ContentOf(base64_image) ==
    IF base64_image.kind # "str" THEN "other"
    ELSE LET d == b64decode(split(base64_image.text))
         IN  IF ~d.ok THEN "bad"
             ELSE IF d.bytes = <<>> THEN "empty"
             ELSE imdecode(d.bytes, TRUE)

\* Every payload of the model with what it is, worked out once.
Contents == {<<p, ContentOf(p)>> : p \in RawInputs \cup Payloads}

Content(ev) ==
    CHOOSE c \in {"other", "bad", "empty", "None", "bitmap"} :
        <<events[ev].base64_image, c>> \in Contents

BadEncoding(ev) == Content(ev) = "bad"

\* The image decoder returned None for this event (for an empty buffer: on a
\* build that does not raise).
NotAnImage(ev) ==
    \/ Content(ev) = "None"
    \/ Content(ev) = "empty" /\ events[ev].exc # "imdecode"

ValidImage(ev) == Content(ev) = "bitmap"

----------------------------------------------------------------------------
(* C1: for every identify-face event carrying a decodable image, on a       *)
(* session that stays connected, exactly one outbound event is emitted:     *)
(* never two at any time, and never zero once the handler has ended,        *)
(* whatever the emit calls do.                                              *)
C1_ExactlyOneReply ==
    \A ev \in DOMAIN events :
        (ValidImage(ev) /\ session[events[ev].sid] = "open") =>
            /\ Cardinality(Emitted(ev)) <= 1
            /\ Finished(ev) => Cardinality(Emitted(ev)) = 1

(* C2: a handler that is waiting in the recognition step when its session   *)
(* has disconnected makes no emit call when it resumes: no reply is         *)
(* attempted on the dead session.                                           *)
C2_NoEmitAfterDisconnect ==
    [][ \A ev \in DOMAIN events :
            (session[events[ev].sid] = "closed" /\ events[ev].pc = "sleep")
                => events'[ev].calls = events[ev].calls ]_vars

(* C3: a session never has two recognition cycles outstanding at once.      *)
C3_OneOutstandingPerSession ==
    \A s \in Sids : Cardinality(Outstanding(s)) <= 1

C6_NoFaultEscapes ==
    \A ev \in DOMAIN events : events[ev].pc # "crashed"

(* C7: every emit call is addressed to the session that sent the event      *)
(* which caused it, so no session is sent a reply to another session's      *)
(* event.                                                                   *)
C7_ReplyCorrelation ==
    \A ev \in DOMAIN events :
        \A k \in CallsOf(ev) :
            /\ Call(ev, k).to = events[ev].sid
            /\ \A s \in Sids : s # events[ev].sid => Call(ev, k).to # s

\* The handler of a second session has replied while the first session's
\* handler, started earlier, is still suspended.
C7_Witness ==
    \E e1 \in DOMAIN events, e2 \in DOMAIN events :
        /\ e1 < e2
        /\ events[e1].sid # events[e2].sid
        /\ events[e1].pc = "sleep"
        /\ EmittedAs(e2, "auth-success") # {}

(* C8: whenever an exception occurs in a handler, that handler ends having  *)
(* emitted exactly one auth-fail without payload to the sender, and no      *)
(* auth-success.                                                            *)
C8_ExceptionYieldsAuthFail ==
    \A ev \in DOMAIN events :
        (events[ev].exc # "none" /\ Finished(ev)) =>
            /\ Cardinality(EmittedAs(ev, "auth-fail")) = 1
            /\ EmittedAs(ev, "auth-success") = {}
            /\ \A k \in Emitted(ev) :
                  Call(ev, k).data = <<>> /\ Call(ev, k).to = events[ev].sid

(* C9: the text handed to the base64 decoder is what follows the first      *)
(* comma of the payload, or the whole payload when it has no comma.         *)
C9_PayloadAfterFirstDelimiter ==
    \A ev \in DOMAIN events :
        IsText(ev) =>
            LET t == events[ev].base64_image.text
                d == events[ev].base64_data
            IN  IF \E k \in 1..Len(t) : t[k] = ","
                THEN \E k \in 1..Len(t) :
                        /\ t[k] = ","
                        /\ \A j \in 1..(k - 1) : t[j] # ","
                        /\ d = SubSeq(t, k + 1, Len(t))
                ELSE d = t

C9_Witness ==
    \E ev \in DOMAIN events :
        /\ IsText(ev)
        /\ Cardinality({k \in 1..Len(events[ev].base64_image.text) :
                            events[ev].base64_image.text[k] = ","}) >= 2
        /\ \E k \in 1..Len(events[ev].base64_data) : events[ev].base64_data[k] = ","
        /\ events[ev].base64_data[1] # ","

(* C10: for every decodable image, whatever its content and its session,   *)
(* the handler waits in the recognition step and then replies auth-success  *)
(* first, to the sender, with the one constant user record, whose id and    *)
(* name are not empty; an auth-fail for such an event is only ever the      *)
(* consequence of the auth-success call raising, never of the recognition.  *)
C10_ConstantSuccess ==
    \A ev \in DOMAIN events :
        ValidImage(ev) =>
            \/ events[ev].pc = "sleep" /\ CallsOf(ev) = {}
            \/ /\ events[ev].pc # "sleep"
               /\ CallsOf(ev) # {}
               /\ Call(ev, 1).event = "auth-success"
               /\ Call(ev, 1).to = events[ev].sid
               /\ Call(ev, 1).data = <<[id |-> "p123", name |-> "Kim Cheol-su"]>>
               /\ Call(ev, 1).data[1].id # ""
               /\ Call(ev, 1).data[1].name # ""
               /\ Call(ev, 1).ok => (events[ev].pc = "done" /\ Cardinality(CallsOf(ev)) = 1)
               /\ (Finished(ev) /\ ~Call(ev, 1).ok) => Cardinality(CallsOf(ev)) = 2
               /\ \A k \in CallsOf(ev) : k > 1 => Call(ev, k).event = "auth-fail"

\* An image other than the bare start marker, sent by the second session, has
\* been answered.
C10_Witness ==
    \E ev \in DOMAIN events :
        /\ ValidImage(ev)
        /\ Len(Decoded(ev).bytes) = 3
        /\ Decoded(ev).bytes[3] # 255
        /\ events[ev].sid = 2
        /\ EmittedAs(ev, "auth-success") # {}

(* C11: a connect for a session identifier that is already registered is    *)
(* rejected, so no session identifier is ever accepted a second time.       *)
C11_DuplicateConnectRejected ==
    \A s \in Sids : accepted[s] <= 1

(* C12: every identify-face handler that has ended has reached one of the   *)
(* three terminal outcomes: an emitted auth-success, an emitted auth-fail,  *)
(* or a silent drop (a normal return without any emit call).                *)
C12_TerminalOutcome ==
    \A ev \in DOMAIN events :
        Finished(ev) =>
            /\ events[ev].pc = "done"
            /\ Emitted(ev) # {} \/ CallsOf(ev) = {}

(* C13: a handler waiting in the recognition step blocks nobody: while it   *)
(* waits, an identify-face event with an image can be received from any     *)
(* other open session, and every handler of another session can take its    *)
(* next step.                                                               *)
C13_CrossSessionNonBlocking ==
    LET waiting(s) == \E e1 \in DOMAIN events :
                          events[e1].pc = "sleep" /\ events[e1].sid # s
    IN  /\ \A s \in Sids :
              (waiting(s) /\ session[s] = "open" /\ Len(events) < MaxEvents)
                  => \E p \in Payloads :
                         /\ <<p, "bitmap">> \in Contents
                         /\ ENABLED handle_identify_face(s, p, TRUE)
        /\ \A e2 \in DOMAIN events :
              waiting(events[e2].sid) =>
                  /\ events[e2].pc = "sleep" => ENABLED resume(e2)
                  /\ events[e2].pc \in {"emit_success", "emit_fail"}
                        => ENABLED emit_returns(e2, "ok")

\* A later event of another session has run to its end while the first
\* handler is still waiting.
C13_Witness ==
    \E e1 \in DOMAIN events, e2 \in DOMAIN events :
        /\ e1 < e2
        /\ events[e1].sid # events[e2].sid
        /\ events[e1].pc = "sleep"
        /\ ValidImage(e2)
        /\ events[e2].pc = "done"

(* C14 (as stated): the recognition wait is the only place where a handler  *)
(* is ever suspended.                                                       *)
C14_OnlyRecognitionSuspends ==
    \A ev \in DOMAIN events : ~Finished(ev) => events[ev].pc = "sleep"

(* C14 (amended): split, base64 decode and image decode run atomically with *)
(* the receipt of the event, so an event is never seen received but not     *)
(* yet decoded; a handler can be suspended in the recognition wait and in   *)
(* each of the two awaited emit calls, and nowhere else.                    *)
C14_SuspensionPoints ==
    \A ev \in DOMAIN events :
        /\ ~Finished(ev) => events[ev].pc \in {"sleep", "emit_success", "emit_fail"}
        /\ IsText(ev) => events[ev].base64_data = split(events[ev].base64_image.text)
        /\ Content(ev) = "bitmap" => events[ev].img = "bitmap"
        /\ Content(ev) = "None" => events[ev].img = "None" /\ events[ev].pc = "done"
        /\ Content(ev) = "bad" => events[ev].img = "unset" /\ events[ev].pc # "sleep"
        /\ events[ev].pc = "sleep" => CallsOf(ev) = {}
        /\ events[ev].pc \in {"emit_success", "emit_fail"} =>
              /\ CallsOf(ev) # {}
              /\ ~Call(ev, Len(events[ev].calls)).ok

\* One handler is suspended in the emit of line 87 and another in the emit of
\* line 92 that follows a failed emit of line 87.
C14_Witness ==
    \E e1 \in DOMAIN events, e2 \in DOMAIN events :
        /\ events[e1].pc = "emit_success"
        /\ events[e2].pc = "emit_fail"
        /\ events[e2].exc = "emit"

(* C15: the set of live sessions changes only in connect and disconnect     *)
(* steps; no step of an identify-face handler changes any session, so the   *)
(* connection of a failed or dropped event stays open.                      *)
C15_SessionsChangeOnlyOnConnectDisconnect ==
    [][ /\ session' # session => \E s \in Sids : connect(s) \/ disconnect(s)
        /\ events' # events => session' = session ]_vars

\* A dropped event and a failed event, both ended, on a session still open.
C15_Witness ==
    \E e1 \in DOMAIN events, e2 \in DOMAIN events :
        /\ events[e1].sid = events[e2].sid
        /\ session[events[e1].sid] = "open"
        /\ Content(e1) = "None" /\ events[e1].pc = "done"
        /\ Content(e2) = "bad" /\ Finished(e2)

(* C16: for every session, the events emitted to it are at most as many as  *)
(* the identify-face events received from it; a session that has sent no    *)
(* event, connected or disconnected, is addressed by no emit call.          *)
C16_NoUnsolicitedReplies ==
    \A s \in Sids :
        LET received == {ev \in DOMAIN events : events[ev].sid = s}
            sent     == {c \in (DOMAIN events) \X (1..2) :
                            /\ c[2] \in CallsOf(c[1])
                            /\ Call(c[1], c[2]).to = s
                            /\ Call(c[1], c[2]).ok}
            called   == {ev \in DOMAIN events :
                            \E k \in CallsOf(ev) : Call(ev, k).to = s}
        IN  /\ Cardinality(sent) <= Cardinality(received)
            /\ received = {} => called = {}
            /\ \A ev \in DOMAIN events : Len(events[ev].calls) <= 2

\* A session has got as many replies as it sent events, one of them an
\* auth-fail that followed a failed auth-success emit; another session has
\* disconnected without ever sending an event.
C16_Witness ==
    \E s \in Sids, t \in Sids :
        /\ session[t] = "closed"
        /\ \A ev \in DOMAIN events : events[ev].sid = s
        /\ Len(events) = MaxEvents
        /\ \A ev \in DOMAIN events : Cardinality(Emitted(ev)) = 1
        /\ \E ev \in DOMAIN events : Len(events[ev].calls) = 2

(* C17: the handling of an event depends on its payload alone: two events   *)
(* with the same payload, whatever their sessions and however their         *)
(* handlers interleave with others, are decoded alike and take the same     *)
(* decision (auth-success, auth-fail, silent drop, or fault); if their emit *)
(* calls also fare alike, they end alike.                                   *)
Decision(ev) ==
    IF events[ev].calls # <<>> THEN events[ev].calls[1].event
    ELSE IF events[ev].pc = "done" THEN "drop"
    ELSE IF events[ev].pc = "crashed" THEN "fault"
    ELSE "pending"

Fared(ev) == [k \in DOMAIN events[ev].calls |-> events[ev].calls[k].ok]

Replies(ev) == [k \in DOMAIN events[ev].calls |-> events[ev].calls[k].event]

C17_HandlerIndependence ==
    \A e1 \in DOMAIN events, e2 \in DOMAIN events :
        events[e1].base64_image = events[e2].base64_image =>
            /\ events[e1].base64_data = events[e2].base64_data
            /\ events[e1].img = events[e2].img
            /\ (Decision(e1) # "pending" /\ Decision(e2) # "pending")
                  => Decision(e1) = Decision(e2)
            /\ (Finished(e1) /\ Finished(e2) /\ Fared(e1) = Fared(e2))
                  => /\ events[e1].pc = events[e2].pc
                     /\ Replies(e1) = Replies(e2)

\* Two events with the same image, the second received on the same session
\* while the first was being handled, both answered with auth-success.
C17_Witness ==
    \E e1 \in DOMAIN events, e2 \in DOMAIN events :
        /\ e1 < e2
        /\ events[e1].sid = events[e2].sid
        /\ events[e1].base64_image = events[e2].base64_image
        /\ ValidImage(e1)
        /\ EmittedAs(e1, "auth-success") # {}
        /\ EmittedAs(e2, "auth-success") # {}

====
